---- MODULE Spec2Model ----
(***************************************************************************)
(* Model of qcodes/instrument/remote.py: RemoteInstrument, the client-side *)
(* proxy of an instrument living on a server process, and its member       *)
(* proxies RemoteMethod, RemoteParameter and RemoteFunction.               *)
(*                                                                         *)
(* The InstrumentServerManager (the session) and the instrument class are  *)
(* collaborators outside remote.py.  They are modelled at their interface: *)
(* the session answers connect/ask/delete, the class keeps a registry of   *)
(* instances and names the default server.                                 *)
(***************************************************************************)
EXTENDS Integers, Sequences, FiniteSets, TLC

VARIABLES
    proxies,         \* the RemoteInstrument objects client code holds
    _server_name,    \* per proxy: self._server_name
    _shared_kwargs,  \* per proxy: self._shared_kwargs
    _kwargs,         \* per proxy: self._kwargs
    _manager,        \* per proxy: self._manager (NoManager: attribute absent)
    name,            \* per proxy: self.name
    _id,             \* per proxy: self._id
    _methods,        \* per proxy: self._methods     (name -> RemoteMethod)
    parameters,      \* per proxy: self.parameters   (name -> RemoteParameter)
    functions,       \* per proxy: self.functions    (name -> RemoteFunction)
    instances,       \* instrument_class's registry of recorded instances
    managers,        \* registry of sessions: <<server name, shared kwargs>> -> session
    alive,           \* sessions whose _server is in mp.active_children()
    next_id,         \* the id the server gives the next instrument it creates
    store,           \* server copies: id -> (parameter name -> value)
    ret              \* the last call: what was called, how it ended, the requests it made

vars == <<proxies, _server_name, _shared_kwargs, _kwargs, _manager, name, _id,
          _methods, parameters, functions, instances, managers, alive,
          next_id, store, ret>>

proxy_vars == <<proxies, _server_name, _shared_kwargs, _kwargs, _manager, name,
                _id, _methods, parameters, functions, instances>>

----------------------------------------------------------------------------
(* Bounds and value universes                                              *)

MaxId == 3                          \* instruments a server creates at most
Proxies == {"p1", "p2"}
Names == {"x", "y"}                 \* member names
Absent == "z"                       \* a name no manifest or add request uses
Values == {"v1", "v2"}              \* parameter values
InitialValue == "v1"
None == "None"                      \* Python's None as a return value
NoManager == 0                      \* hasattr(self, '_manager') is False
EmptyDict == [k \in {} |-> <<>>]    \* {}

(* Descriptive attributes of a member: attribute name -> value, a value a  *)
(* sequence of strings ('' is the empty sequence).                         *)
DocAttrs == ("__doc__" :> <<"doc">>) @@ ("units" :> <<"V">>)
NoDocAttrs == ("__doc__" :> <<>>) @@ ("units" :> <<"V">>)

----------------------------------------------------------------------------
(* RemoteComponent and its three subclasses                                *)

(* RemoteComponent.__init__: copies attrs, rewriting a non-empty __doc__   *)
(* to '<type> <name> in RemoteInstrument <instrument.name>\n---\n\n<doc>'. *)
RemoteComponent(type, nm, instrument, instrument_name, attrs) ==
    [type |-> type, name |-> nm, _instrument |-> instrument,
     attrs |-> [a \in DOMAIN attrs |->
                  IF a = "__doc__" /\ attrs[a] # <<>>
                  THEN <<type, nm, "in RemoteInstrument", instrument_name, "---">> \o attrs[a]
                  ELSE attrs[a]]]

RemoteMethod(nm, p, pname, attrs) == RemoteComponent("RemoteMethod", nm, p, pname, attrs)
RemoteParameter(nm, p, pname, attrs) == RemoteComponent("RemoteParameter", nm, p, pname, attrs)
RemoteFunction(nm, p, pname, attrs) == RemoteComponent("RemoteFunction", nm, p, pname, attrs)

----------------------------------------------------------------------------
(* The collaborators                                                       *)

(* instrument_class.shared_kwargs: the keyword names that select a server. *)
shared_kwargs == {"address"}

\* instrument_class.default_server_name, called with keyword arguments kw:
\* the server is named after the address.
default_server_name(kw) ==
    IF "address" \in DOMAIN kw THEN kw["address"] ELSE "Instruments"

(* get_instrument_server_manager: get-or-create, keyed by the pair.        *)
ManagerKey(server_name, shared) == <<server_name, shared>>
get_instrument_server_manager(server_name, shared) ==
    IF ManagerKey(server_name, shared) \in DOMAIN managers
    THEN managers[ManagerKey(server_name, shared)]
    ELSE Cardinality(DOMAIN managers) + 1

(* A request as the session receives it.                                   *)
Request(mode, session, id, func, args, kw) ==
    [mode |-> mode, session |-> session, id |-> id, func |-> func,
     args |-> args, kw |-> kw]

(* The record of a call.                                                   *)
Ret(op, p, member, args, kw, outcome, value, reqs, reply, dsn) ==
    [op |-> op, p |-> p, member |-> member, args |-> args, kw |-> kw, outcome |-> outcome,
     value |-> value, reqs |-> reqs, reply |-> reply, dsn |-> dsn]

(* The capability manifest the server returns on connect.                  *)
Manifest(nm, id, ms, ps, fs) ==
    [name |-> nm, id |-> id, methods |-> ms, parameters |-> ps, functions |-> fs]

----------------------------------------------------------------------------
Init ==
    /\ proxies = {}
    /\ _server_name = [p \in Proxies |-> ""]
    /\ _shared_kwargs = [p \in Proxies |-> EmptyDict]
    /\ _kwargs = [p \in Proxies |-> EmptyDict]
    /\ _manager = [p \in Proxies |-> NoManager]
    /\ name = [p \in Proxies |-> ""]
    /\ _id = [p \in Proxies |-> 0]
    /\ _methods = [p \in Proxies |-> EmptyDict]
    /\ parameters = [p \in Proxies |-> EmptyDict]
    /\ functions = [p \in Proxies |-> EmptyDict]
    /\ instances = {}
    /\ managers = EmptyDict
    /\ alive = {}
    /\ next_id = 1
    /\ store = EmptyDict
    /\ ret = Ret("none", "", "", <<>>, EmptyDict, "ok", None, <<>>, EmptyDict, {})

----------------------------------------------------------------------------
(* The session (InstrumentServerManager) and the server behind it          *)

\* The server process of session s is running.
active_children(s) == s \in alive

\* The answer of manager.ask('cmd', id, func, *args, **kw).  ans is what the
\* server decides: ans.ok, whether it accepts the request, and ans.attrs,
\* the attributes it gives a member it is asked to add.  The server copy
\* stores what is set and echoes it on get.
manager_ask(s, id, func, args, kw, ans) ==
    LET req == Request("ask", s, id, func, args, kw)
        served == active_children(s) /\ id \in DOMAIN store /\ ans.ok
    IN  [outcome |-> IF served THEN "ok" ELSE "ServerError",
         value |-> IF ~served THEN None
                   ELSE IF func = "get" THEN store[id][args[1]]
                   ELSE IF func \in {"set", "setattr"} THEN None
                   ELSE IF func \in {"add_parameter", "add_function"} THEN "attrs"
                   ELSE "result",
         reply |-> IF served /\ func \in {"add_parameter", "add_function"}
                   THEN ans.attrs ELSE EmptyDict,
         reqs |-> <<req>>,
         store |-> IF served /\ func = "set"
                   THEN [store EXCEPT ![id][args[1]] = args[2]]
                   ELSE store]

\* manager.write('cmd', id, func, *args, **kw): the request is handed to the
\* session and nothing is awaited; the server has not acted on it when the
\* call returns.
manager_write(s, id, func, args, kw) ==
    [outcome |-> "ok", value |-> None, reply |-> EmptyDict,
     reqs |-> <<Request("write", s, id, func, args, kw)>>,
     store |-> store]

\* self._manager where the attribute is absent: attribute delegation finds
\* no '_manager' and raises AttributeError before anything is sent.
NoManagerError ==
    [outcome |-> "AttributeError", value |-> None, reply |-> EmptyDict,
     reqs |-> <<>>, store |-> store]

----------------------------------------------------------------------------
(* RemoteInstrument                                                        *)

\* _ask_server guarded by hasattr(self, '_manager'), as close() is: without
\* a session it returns None.
_ask_server_guarded(p, func, args, kw, ans) ==
    IF _manager[p] = NoManager
    THEN [outcome |-> "ok", value |-> None, reply |-> EmptyDict,
          reqs |-> <<>>, store |-> store]
    ELSE manager_ask(_manager[p], _id[p], func, args, kw, ans)

_ask_server(p, func, args, kw, ans) ==
    IF _manager[p] = NoManager
    THEN NoManagerError
    ELSE manager_ask(_manager[p], _id[p], func, args, kw, ans)

_write_server(p, func, args, kw) ==
    IF _manager[p] = NoManager
    THEN NoManagerError
    ELSE manager_write(_manager[p], _id[p], func, args, kw)

\* The outcome of self._manager.connect(self, cls, args, kwargs) for a proxy
\* whose _manager is mgr, with the server processes in live running.
ConnectOutcome(mgr, live, ok) ==
    IF mgr = NoManager THEN "AttributeError"
    ELSE IF mgr \in live /\ ok THEN "ok" ELSE "ServerError"

ConnectReqs(mgr, kw) ==
    IF mgr = NoManager THEN <<>>
    ELSE <<Request("connect", mgr, 0, "connect", <<>>, kw)>>

\* The server copies a request can still name once p takes a new id: the
\* copy p named before is out of every proxy's reach.
Addressable(p) == [i \in DOMAIN store \ {_id[p]} |-> store[i]]

\* connect() that adds the members of the manifest to the mappings it finds
\* (dict.update) instead of building new mappings.
connect_update(p, mgr, live, m, ok) ==
    IF ConnectOutcome(mgr, live, ok) = "ok"
    THEN /\ next_id <= MaxId
         /\ name' = [name EXCEPT ![p] = m.name]
         /\ _id' = [_id EXCEPT ![p] = next_id]
         /\ _methods' = [_methods EXCEPT ![p] =
                [n \in DOMAIN m.methods |-> RemoteMethod(n, p, m.name, m.methods[n])] @@ @]
         /\ parameters' = [parameters EXCEPT ![p] =
                [n \in DOMAIN m.parameters |-> RemoteParameter(n, p, m.name, m.parameters[n])] @@ @]
         /\ functions' = [functions EXCEPT ![p] =
                [n \in DOMAIN m.functions |-> RemoteFunction(n, p, m.name, m.functions[n])] @@ @]
         /\ next_id' = next_id + 1
         /\ store' = (next_id :> [n \in Names |-> InitialValue]) @@ Addressable(p)
    ELSE UNCHANGED <<name, _id, _methods, parameters, functions, next_id, store>>

\* connect(): m describes the instrument the server builds; the server gives
\* it the id next_id.  Nothing is assigned when manager.connect raises.
connect(p, mgr, live, m, ok) ==
    IF ConnectOutcome(mgr, live, ok) = "ok"
    THEN /\ next_id <= MaxId
         /\ name' = [name EXCEPT ![p] = m.name]
         /\ _id' = [_id EXCEPT ![p] = next_id]
         /\ _methods' = [_methods EXCEPT ![p] =
                [n \in DOMAIN m.methods |-> RemoteMethod(n, p, m.name, m.methods[n])]]
         /\ parameters' = [parameters EXCEPT ![p] =
                [n \in DOMAIN m.parameters |-> RemoteParameter(n, p, m.name, m.parameters[n])]]
         /\ functions' = [functions EXCEPT ![p] =
                [n \in DOMAIN m.functions |-> RemoteFunction(n, p, m.name, m.functions[n])]]
         /\ next_id' = next_id + 1
         /\ store' = (next_id :> [n \in Names |-> InitialValue]) @@ Addressable(p)
    ELSE UNCHANGED <<name, _id, _methods, parameters, functions, next_id, store>>

ConnectReply(mgr, live, m, ok) ==
    IF ConnectOutcome(mgr, live, ok) = "ok"
    THEN Manifest(m.name, next_id, m.methods, m.parameters, m.functions)
    ELSE EmptyDict

\* The loop over instrument_class.shared_kwargs: what it moves to
\* shared_kwargs, and what it leaves in kwargs.
Shared(kw) == [k \in DOMAIN kw \cap shared_kwargs |-> kw[k]]
Remainder(kw) == [k \in DOMAIN kw \ shared_kwargs |-> kw[k]]

\* The default name asked for once the loop has run, with shared_kwargs.
default_server_name_kwargs_shared(kw) == Shared(kw)

\* The keyword arguments __init__ passes to default_server_name: kwargs as
\* the call gave them, the loop over shared_kwargs not yet run.
default_server_name_kwargs(kw) == kw

\* The server name __init__ settles on: the one given, or for '' the one the
\* class derives from the keyword arguments it is passed.
ServerName(sn, kw) ==
    IF sn = "" THEN default_server_name(default_server_name_kwargs(kw)) ELSE sn

\* The calls __init__ makes to default_server_name, each by the keyword
\* arguments it passes.
default_server_name_calls(sn, kw) ==
    IF sn = "" THEN {default_server_name_kwargs(kw)} ELSE {}

\* RemoteInstrument(instrument_class=cls, server_name=sn, **kw).  A
\* constructor that raises hands no object to the caller.
__init__(p, sn, kw, m, ok) ==
    /\ p \notin proxies
    /\ LET server_name == ServerName(sn, kw)
           shared == Shared(kw)
           rest == Remainder(kw)
           mgr == get_instrument_server_manager(server_name, shared)
           live == alive \cup (IF ManagerKey(server_name, shared) \in DOMAIN managers
                               THEN {} ELSE {mgr})
       IN  /\ _server_name' = [_server_name EXCEPT ![p] = server_name]
           /\ _shared_kwargs' = [_shared_kwargs EXCEPT ![p] = shared]
           /\ managers' = (ManagerKey(server_name, shared) :> mgr) @@ managers
           /\ alive' = live
           /\ _manager' = [_manager EXCEPT ![p] = mgr]
           /\ _kwargs' = [_kwargs EXCEPT ![p] = rest]
           /\ instances' = instances \cup {p}
           /\ connect(p, mgr, live, m, ok)
           /\ proxies' = IF ConnectOutcome(mgr, live, ok) = "ok"
                         THEN proxies \cup {p} ELSE proxies
           /\ ret' = Ret("__init__", p, "", <<sn>>, kw, ConnectOutcome(mgr, live, ok), None,
                         ConnectReqs(mgr, rest), ConnectReply(mgr, live, m, ok),
                         default_server_name_calls(sn, kw))

\* proxy.connect() called again by client code.
Connect(p, m, ok) ==
    /\ p \in proxies
    /\ connect(p, _manager[p], alive, m, ok)
    /\ ret' = Ret("connect", p, "", <<>>, EmptyDict, ConnectOutcome(_manager[p], alive, ok), None,
                  ConnectReqs(_manager[p], _kwargs[p]),
                  ConnectReply(_manager[p], alive, m, ok), {})
    /\ UNCHANGED <<proxies, _server_name, _shared_kwargs, _kwargs, _manager,
                   instances, managers, alive>>

\* add_parameter that stores the new proxy whatever the ask did.
add_parameter_unconditional(p, n, kw, ans) ==
    /\ p \in proxies
    /\ LET r == _ask_server(p, "add_parameter", <<n>>, kw, ans)
       IN  /\ parameters' = [parameters EXCEPT ![p] =
                                (n :> RemoteParameter(n, p, name[p], r.reply)) @@ @]
           /\ store' = r.store
           /\ ret' = Ret("add_parameter", p, n, <<n>>, kw, r.outcome, None, r.reqs, r.reply, {})
    /\ UNCHANGED <<proxies, _server_name, _shared_kwargs, _kwargs, _manager, name,
                   _id, _methods, functions, instances, managers, alive, next_id>>

\* add_parameter(name, **kw): the new proxy is stored only when the ask
\* returns; an error of the ask leaves the method at line 122.
add_parameter(p, n, kw, ans) ==
    /\ p \in proxies
    /\ LET r == _ask_server(p, "add_parameter", <<n>>, kw, ans)
       IN  /\ parameters' = IF r.outcome = "ok"
                            THEN [parameters EXCEPT ![p] =
                                    (n :> RemoteParameter(n, p, name[p], r.reply)) @@ @]
                            ELSE parameters
           /\ store' = r.store
           /\ ret' = Ret("add_parameter", p, n, <<n>>, kw, r.outcome, None, r.reqs, r.reply, {})
    /\ UNCHANGED <<proxies, _server_name, _shared_kwargs, _kwargs, _manager, name,
                   _id, _methods, functions, instances, managers, alive, next_id>>

\* add_function(name, **kw)
add_function(p, n, kw, ans) ==
    /\ p \in proxies
    /\ LET r == _ask_server(p, "add_function", <<n>>, kw, ans)
       IN  /\ functions' = IF r.outcome = "ok"
                           THEN [functions EXCEPT ![p] =
                                   (n :> RemoteFunction(n, p, name[p], r.reply)) @@ @]
                           ELSE functions
           /\ store' = r.store
           /\ ret' = Ret("add_function", p, n, <<n>>, kw, r.outcome, None, r.reqs, r.reply, {})
    /\ UNCHANGED <<proxies, _server_name, _shared_kwargs, _kwargs, _manager, name,
                   _id, _methods, parameters, instances, managers, alive, next_id>>

\* close() without the test of mp.active_children().
CloseReqs_unchecked(p) ==
    IF _manager[p] # NoManager
    THEN <<Request("delete", _manager[p], _id[p], "delete", <<>>, EmptyDict)>>
    ELSE <<>>

\* The requests close() makes: manager.delete(self._id), when the attribute
\* _manager is there and its server process is among the active children.
CloseReqs(p) ==
    IF _manager[p] # NoManager /\ active_children(_manager[p])
    THEN <<Request("delete", _manager[p], _id[p], "delete", <<>>, EmptyDict)>>
    ELSE <<>>

\* close() that tears the session down for every proxy that uses it.
close_session(p) ==
    /\ store' = IF CloseReqs(p) # <<>>
                THEN [i \in DOMAIN store \ {_id[p]} |-> store[i]]
                ELSE store
    /\ _manager' = [q \in Proxies |->
                      IF _manager[q] = _manager[p] THEN NoManager ELSE _manager[q]]
    /\ instances' = instances \ {p}

\* The body of close(): what it does to the proxy, the registry and the
\* server copies.
close(p) ==
    /\ store' = IF CloseReqs(p) # <<>>
                THEN [i \in DOMAIN store \ {_id[p]} |-> store[i]]
                ELSE store
    /\ _manager' = [_manager EXCEPT ![p] = NoManager]
    /\ instances' = instances \ {p}

\* proxy.close()
Close(p) ==
    /\ p \in proxies
    /\ close(p)
    /\ ret' = Ret("close", p, "", <<>>, EmptyDict, "ok", None, CloseReqs(p), EmptyDict, {})
    /\ UNCHANGED <<proxies, _server_name, _shared_kwargs, _kwargs, name, _id,
                   _methods, parameters, functions, managers, alive, next_id>>

\* proxy.restart(): close(), then self._manager.restart() on what close()
\* left of the proxy.
restart(p) ==
    /\ p \in proxies
    /\ close(p)
    /\ ret' = IF _manager'[p] = NoManager
              THEN Ret("restart", p, "", <<>>, EmptyDict, "AttributeError", None, CloseReqs(p),
                       EmptyDict, {})
              ELSE Ret("restart", p, "", <<>>, EmptyDict, "ok", None,
                       CloseReqs(p) \o <<Request("restart", _manager'[p], 0, "restart",
                                                <<>>, EmptyDict)>>,
                       EmptyDict, {})
    /\ UNCHANGED <<proxies, _server_name, _shared_kwargs, _kwargs, name, _id,
                   _methods, parameters, functions, managers, alive, next_id>>

\* What a lookup that finds nothing raises.
Raise(error) == [type |-> error, name |-> "", _instrument |-> "", attrs |-> EmptyDict]

\* proxy[key]
__getitem__(p, key) ==
    IF key \in DOMAIN parameters[p] THEN parameters[p][key]
    ELSE IF key \in DOMAIN functions[p] THEN functions[p][key]
    ELSE Raise("KeyError")

\* delegate_attr_dicts with parameters ahead of the methods.
delegate_attr_dicts_parameters_first == <<"parameters", "_methods", "functions">>

\* The dictionaries attribute delegation consults, in this order.
delegate_attr_dicts == <<"_methods", "parameters", "functions">>

\* The dictionary of proxy p an entry of delegate_attr_dicts names.
AttrDict(p, d) ==
    IF d = "_methods" THEN _methods[p]
    ELSE IF d = "parameters" THEN parameters[p]
    ELSE functions[p]

\* proxy.key for a key that is no attribute of the object itself: the first
\* dictionary of delegate_attr_dicts that holds key answers.
__getattr__(p, key) ==
    LET hits == {i \in DOMAIN delegate_attr_dicts :
                    key \in DOMAIN AttrDict(p, delegate_attr_dicts[i])}
    IN  IF hits = {} THEN Raise("AttributeError")
        ELSE LET first == CHOOSE i \in hits : \A j \in hits : i <= j
             IN  AttrDict(p, delegate_attr_dicts[first])[key]

----------------------------------------------------------------------------
(* The member proxies                                                      *)

\* name + '.' + attr
Dotted(n, attr) == <<n, ".", attr>>

\* A call that never reaches the body of the method it names.
TypeError ==
    [outcome |-> "TypeError", value |-> None, reply |-> EmptyDict,
     reqs |-> <<>>, store |-> store]

\* RemoteMethod.__call__
RemoteMethod_call(p, n, ans) == _ask_server(p, n, <<>>, EmptyDict, ans)

\* RemoteParameter.get
RemoteParameter_get(p, n, ans) == _ask_server(p, "get", <<n>>, EmptyDict, ans)

\* RemoteParameter.set through _write_server, the asynchronous set.
RemoteParameter_set_write(p, n, value, ans) ==
    _write_server(p, "set", <<n, value>>, EmptyDict)

\* RemoteParameter.set: the answer of the ask is dropped.
RemoteParameter_set(p, n, value, ans) ==
    [_ask_server(p, "set", <<n, value>>, EmptyDict, ans) EXCEPT !.value = None]

\* RemoteParameter.__call__ that sets the first of its arguments, however
\* many it is given.
RemoteParameter_call_first(p, n, args, ans) ==
    IF Len(args) = 0 THEN RemoteParameter_get(p, n, ans)
    ELSE RemoteParameter_set(p, n, args[1], ans)

\* RemoteParameter.__call__(*args): set(*args) takes one value and no more.
RemoteParameter_call(p, n, args, ans) ==
    IF Len(args) = 0 THEN RemoteParameter_get(p, n, ans)
    ELSE IF Len(args) = 1 THEN RemoteParameter_set(p, n, args[1], ans)
    ELSE TypeError

\* RemoteParameter._latest
RemoteParameter_latest(p, n, ans) ==
    _ask_server(p, "callattr", Dotted(n, "_latest"), EmptyDict, ans)

\* RemoteParameter.snapshot(update)
RemoteParameter_snapshot(p, n, update, ans) ==
    _ask_server(p, "callattr", Dotted(n, "snapshot") \o <<update>>, EmptyDict, ans)

\* RemoteParameter.setattr(attr, value)
RemoteParameter_setattr(p, n, attr, value, ans) ==
    [_ask_server(p, "setattr", Dotted(n, attr) \o <<value>>, EmptyDict, ans)
        EXCEPT !.value = None]

\* RemoteParameter.getattr(attr)
RemoteParameter_getattr(p, n, attr, ans) ==
    _ask_server(p, "getattr", Dotted(n, attr), EmptyDict, ans)

\* RemoteParameter.callattr(attr, *args, **kwargs)
RemoteParameter_callattr(p, n, attr, ans) ==
    _ask_server(p, "callattr", Dotted(n, attr), EmptyDict, ans)

\* RemoteFunction.__call__(*args), and its alias call
RemoteFunction_call(p, n, args, ans) ==
    _ask_server(p, "call", <<n>> \o args, EmptyDict, ans)

\* A call on a member proxy, as the client sees it: r is what the method
\* returned or raised.  The proxy itself is not touched.
MemberCall(op, p, n, args, r) ==
    /\ ret' = Ret(op, p, n, args, EmptyDict, r.outcome, r.value, r.reqs, r.reply, {})
    /\ store' = r.store
    /\ UNCHANGED <<proxy_vars, managers, alive, next_id>>

CallMethod(p, n, ans) ==
    /\ p \in proxies /\ n \in DOMAIN _methods[p]
    /\ MemberCall("method", p, n, <<>>, RemoteMethod_call(p, n, ans))

Get(p, n, ans) ==
    /\ p \in proxies /\ n \in DOMAIN parameters[p]
    /\ MemberCall("get", p, n, <<>>, RemoteParameter_get(p, n, ans))

Set(p, n, value, ans) ==
    /\ p \in proxies /\ n \in DOMAIN parameters[p]
    /\ MemberCall("set", p, n, <<value>>, RemoteParameter_set(p, n, value, ans))

CallParameter(p, n, args, ans) ==
    /\ p \in proxies /\ n \in DOMAIN parameters[p]
    /\ MemberCall("__call__", p, n, args, RemoteParameter_call(p, n, args, ans))

Latest(p, n, ans) ==
    /\ p \in proxies /\ n \in DOMAIN parameters[p]
    /\ MemberCall("_latest", p, n, <<>>, RemoteParameter_latest(p, n, ans))

Snapshot(p, n, update, ans) ==
    /\ p \in proxies /\ n \in DOMAIN parameters[p]
    /\ MemberCall("snapshot", p, n, <<update>>, RemoteParameter_snapshot(p, n, update, ans))

SetAttr(p, n, attr, value, ans) ==
    /\ p \in proxies /\ n \in DOMAIN parameters[p]
    /\ MemberCall("setattr", p, n, <<attr, value>>,
                  RemoteParameter_setattr(p, n, attr, value, ans))

GetAttr(p, n, attr, ans) ==
    /\ p \in proxies /\ n \in DOMAIN parameters[p]
    /\ MemberCall("getattr", p, n, <<attr>>, RemoteParameter_getattr(p, n, attr, ans))

CallAttr(p, n, attr, ans) ==
    /\ p \in proxies /\ n \in DOMAIN parameters[p]
    /\ MemberCall("callattr", p, n, <<attr>>, RemoteParameter_callattr(p, n, attr, ans))

CallFunction(p, n, args, ans) ==
    /\ p \in proxies /\ n \in DOMAIN functions[p]
    /\ MemberCall("call", p, n, args, RemoteFunction_call(p, n, args, ans))

----------------------------------------------------------------------------
(* The environment                                                         *)

\* The server process of a session ends.
ServerDies(s) ==
    /\ s \in alive
    /\ alive' = alive \ {s}
    /\ ret' = Ret("server_dies", "", "", <<>>, EmptyDict, "ok", None, <<>>, EmptyDict, {})
    /\ UNCHANGED <<proxy_vars, managers, next_id, store>>

----------------------------------------------------------------------------
(* Inputs                                                                  *)

\* What a server may answer an ask that adds nothing.
Answers == {[ok |-> b, attrs |-> EmptyDict] : b \in BOOLEAN}
\* What a server may answer add_parameter and add_function.
AddAnswers == {[ok |-> b, attrs |-> a] : b \in BOOLEAN, a \in {DocAttrs, NoDocAttrs}}
PlainAddAnswers == {[ok |-> b, attrs |-> NoDocAttrs] : b \in BOOLEAN}

\* Instruments a server may build on connect.
Description(nm, ms, ps, fs) ==
    [name |-> nm,
     methods |-> [n \in ms |-> DocAttrs],
     parameters |-> [n \in ps |-> DocAttrs],
     functions |-> [n \in fs |-> NoDocAttrs]]

Descriptions ==
    { Description("src1", {}, {"x"}, {}),
      Description("src1", {"x"}, {"y"}, {}),
      Description("src2", {"y"}, {"x"}, {"x", "y"}) }

OneDescription == { Description("src1", {"y"}, {"x"}, {"y"}) }

Kwargs == {EmptyDict, ("address" :> "a1"), ("label" :> "l1"),
           ("address" :> "a1") @@ ("label" :> "l1")}

ArgLists == {<<>>, <<"v2">>, <<"v1", "v2">>}

----------------------------------------------------------------------------
(* Spec: one proxy, every operation of the proxy and of its members        *)

Next ==
    \/ \E m \in OneDescription, ok \in BOOLEAN : __init__("p1", "s1", EmptyDict, m, ok)
    \/ \E m \in OneDescription, ok \in BOOLEAN : Connect("p1", m, ok)
    \/ \E n \in Names, ans \in PlainAddAnswers : add_parameter("p1", n, EmptyDict, ans)
    \/ \E n \in Names, ans \in PlainAddAnswers : add_function("p1", n, EmptyDict, ans)
    \/ Close("p1")
    \/ restart("p1")
    \/ \E n \in Names, ans \in Answers : CallMethod("p1", n, ans)
    \/ \E n \in Names, ans \in Answers : Get("p1", n, ans)
    \/ \E n \in Names, v \in Values, ans \in Answers : Set("p1", n, v, ans)
    \/ \E n \in Names, args \in ArgLists, ans \in Answers : CallParameter("p1", n, args, ans)
    \/ \E n \in Names, ans \in Answers : Latest("p1", n, ans)
    \/ \E n \in Names, ans \in Answers : Snapshot("p1", n, "True", ans)
    \/ \E n \in Names, ans \in Answers : SetAttr("p1", n, "label", "v1", ans)
    \/ \E n \in Names, ans \in Answers : GetAttr("p1", n, "label", ans)
    \/ \E n \in Names, ans \in Answers : CallAttr("p1", n, "get", ans)
    \/ \E n \in Names, args \in ArgLists, ans \in Answers : CallFunction("p1", n, args, ans)
    \/ \E s \in alive : ServerDies(s)

Spec == Init /\ [][Next]_vars

----------------------------------------------------------------------------
(* SpecMembers: one proxy, the operations that build the member mappings   *)

NextMembers ==
    \/ \E m \in Descriptions, ok \in BOOLEAN : __init__("p1", "s1", EmptyDict, m, ok)
    \/ \E m \in Descriptions, ok \in BOOLEAN : Connect("p1", m, ok)
    \/ \E n \in Names, ans \in AddAnswers : add_parameter("p1", n, EmptyDict, ans)
    \/ \E n \in Names, ans \in AddAnswers : add_function("p1", n, EmptyDict, ans)
    \/ Close("p1")

SpecMembers == Init /\ [][NextMembers]_vars

----------------------------------------------------------------------------
(* SpecShared: two proxies that may share a session                        *)

NextShared ==
    \/ \E p \in Proxies, sn \in {"s1", "s2"}, m \in OneDescription, ok \in BOOLEAN :
          __init__(p, sn, EmptyDict, m, ok)
    \/ \E p \in Proxies, m \in OneDescription : Connect(p, m, TRUE)
    \/ \E p \in Proxies : Close(p)
    \/ \E p \in Proxies, ans \in Answers : Get(p, "x", ans)
    \/ \E p \in Proxies, v \in Values, ans \in Answers : Set(p, "x", v, ans)
    \/ \E p \in Proxies, ans \in Answers : CallFunction(p, "y", <<>>, ans)
    \/ \E s \in alive : ServerDies(s)

SpecShared == Init /\ [][NextShared]_vars

----------------------------------------------------------------------------
(* SpecInit: construction with every choice of server name and kwargs      *)

NextInit ==
    \/ \E sn \in {"", "s1"}, kw \in Kwargs, m \in OneDescription, ok \in BOOLEAN :
          __init__("p1", sn, kw, m, ok)
    \/ \E kw \in Kwargs, m \in OneDescription : __init__("p2", "", kw, m, TRUE)
    \/ \E m \in OneDescription : Connect("p1", m, TRUE)
    \/ \E p \in Proxies : Close(p)

SpecInit == Init /\ [][NextInit]_vars

----------------------------------------------------------------------------
(* Claims                                                                  *)

\* The operations of a proxy and of its members that need the session.
SessionOps ==
    {"get", "set", "__call__", "method", "call", "callattr", "getattr", "setattr",
     "snapshot", "_latest", "add_parameter", "add_function", "connect"}

\* Proxy p was closed: client code holds it and it has no _manager.
Closed(p) == p \in proxies /\ _manager[p] = NoManager

\* C1: once close() has completed on a proxy, every later operation that
\* needs the session (get, set, the call shortcut, a method or function
\* call, callattr/getattr/setattr, snapshot, add_parameter, add_function,
\* connect) ends in an error at the call, sends nothing to the session and
\* changes nothing on the server.
C1_ClosedProxyFails ==
    [][\A p \in Proxies :
          (Closed(p) /\ ret'.p = p /\ ret'.op \in SessionOps)
          => /\ ret'.outcome \in {"AttributeError", "TypeError"}
             /\ ret'.reqs = <<>>
             /\ store' = store]_vars

\* C1 witness: a get on a closed proxy has raised and sent nothing.
C1_Witness ==
    /\ ret.op = "get" /\ Closed(ret.p)
    /\ ret.outcome = "AttributeError" /\ ret.reqs = <<>>

\* C2: restart() on a proxy with a session attached performs close() and
\* then restart() on that session, and completes without error.
C2_RestartCompletes ==
    [][\A p \in Proxies :
          (p \in proxies /\ _manager[p] # NoManager /\ ret'.op = "restart" /\ ret'.p = p)
          => /\ ret'.outcome = "ok"
             /\ \E i \in DOMAIN ret'.reqs :
                   /\ ret'.reqs[i].mode = "restart"
                   /\ ret'.reqs[i].session = _manager[p]]_vars

\* C3: close() sends delete(identity) exactly when a session is attached
\* and its server process is alive, and nothing otherwise; afterwards the
\* proxy has no session and is not in the registry of its class.
C3_CloseDeletesWhenLive ==
    [][\A p \in Proxies :
          (ret'.op = "close" /\ ret'.p = p)
          => /\ IF _manager[p] # NoManager /\ _manager[p] \in alive
                THEN ret'.reqs = <<Request("delete", _manager[p], _id[p], "delete",
                                           <<>>, EmptyDict)>>
                ELSE ret'.reqs = <<>>
             /\ _manager'[p] = NoManager
             /\ p \notin instances']_vars

\* C3 witness: a close() has sent its delete and left the proxy detached
\* and deregistered.
C3_Witness ==
    /\ ret.op = "close" /\ Len(ret.reqs) = 1 /\ ret.reqs[1].mode = "delete"
    /\ ret.reqs[1].id = _id[ret.p]
    /\ _manager[ret.p] = NoManager /\ ret.p \notin instances

\* C3 witness of the other case: close() on a proxy whose server process
\* had ended sent nothing.
C3_WitnessDead ==
    /\ ret.op = "close" /\ ret.reqs = <<>>
    /\ managers[ManagerKey(_server_name[ret.p], _shared_kwargs[ret.p])] \notin alive
    /\ ret.p \notin instances

\* The member proxy connect() builds for entry n of a manifest mapping: of
\* the given type, named by its key, owned by p, with the attributes of the
\* manifest, the documentation string aside.
Mirrors(c, type, n, p, attrs) ==
    /\ c.type = type /\ c.name = n /\ c._instrument = p
    /\ DOMAIN c.attrs = DOMAIN attrs
    /\ \A a \in DOMAIN attrs \ {"__doc__"} : c.attrs[a] = attrs[a]

\* C4: after every connect(), the first or a later one, the keys of
\* _methods, parameters and functions are the keys of the manifest just
\* returned, name and _id are the manifest's, and every key maps to a member
\* proxy of the matching type that carries the key as its name.
C4_ConnectRebuilds ==
    (ret.op \in {"connect", "__init__"} /\ ret.outcome = "ok")
    => LET p == ret.p
           m == ret.reply
       IN  /\ name[p] = m.name /\ _id[p] = m.id
           /\ DOMAIN _methods[p] = DOMAIN m.methods
           /\ DOMAIN parameters[p] = DOMAIN m.parameters
           /\ DOMAIN functions[p] = DOMAIN m.functions
           /\ \A n \in DOMAIN m.methods :
                 Mirrors(_methods[p][n], "RemoteMethod", n, p, m.methods[n])
           /\ \A n \in DOMAIN m.parameters :
                 Mirrors(parameters[p][n], "RemoteParameter", n, p, m.parameters[n])
           /\ \A n \in DOMAIN m.functions :
                 Mirrors(functions[p][n], "RemoteFunction", n, p, m.functions[n])

\* C4 witness: a second connect() has returned a manifest with the one
\* parameter x and the proxy holds that parameter and no function.
C4_Witness ==
    /\ ret.op = "connect" /\ ret.outcome = "ok" /\ ret.reply.id > 1
    /\ DOMAIN ret.reply.parameters = {"x"}
    /\ DOMAIN parameters[ret.p] = {"x"} /\ DOMAIN functions[ret.p] = {}

\* C5: add_parameter(name) and add_function(name) on a proxy with a session
\* send the one ask('add_parameter' | 'add_function', name, ...); when it
\* returns, the mapping gets a new member proxy under name, built from the
\* attributes returned, in place of any entry of that name, and proxy[name]
\* is the new parameter after add_parameter, a function of that name
\* notwithstanding; when it fails, the error is the caller's and _methods,
\* parameters and functions are as they were.
C5_AddOnlyOnSuccess ==
    [][\A p \in Proxies : \A n \in Names :
          (ret'.p = p /\ ret'.member = n /\ ret'.op \in {"add_parameter", "add_function"})
          => LET added == IF ret'.op = "add_parameter"
                          THEN RemoteParameter(n, p, name[p], ret'.reply)
                          ELSE RemoteFunction(n, p, name[p], ret'.reply)
             IN  /\ IF _manager[p] # NoManager
                    THEN ret'.reqs = <<Request("ask", _manager[p], _id[p], ret'.op,
                                               <<n>>, ret'.kw)>>
                    ELSE ret'.reqs = <<>>
                 /\ _methods' = _methods
                 /\ ret'.outcome \in {"ok", "ServerError", "AttributeError"}
                 /\ ret'.outcome # "ok" => parameters' = parameters /\ functions' = functions
                 /\ (ret'.outcome = "ok" /\ ret'.op = "add_parameter")
                    => /\ parameters' = [parameters EXCEPT ![p] = (n :> added) @@ @]
                       /\ functions' = functions
                       /\ __getitem__(p, n)' = added
                 /\ (ret'.outcome = "ok" /\ ret'.op = "add_function")
                    => /\ functions' = [functions EXCEPT ![p] = (n :> added) @@ @]
                       /\ parameters' = parameters]_vars

\* C5 witness: add_parameter has succeeded for a name that is also a
\* function, and proxy[name] is the RemoteParameter.
C5_Witness ==
    /\ ret.op = "add_parameter" /\ ret.outcome = "ok"
    /\ ret.member \in DOMAIN functions[ret.p]
    /\ __getitem__(ret.p, ret.member).type = "RemoteParameter"
    /\ __getitem__(ret.p, ret.member).attrs["units"] = ret.reply["units"]

\* C6: set(value) on a parameter of a proxy with a session sends the one
\* blocking ask('set', name, value) under the proxy's _id and no write; when
\* it returns the server copy holds the value, so that a get() that follows
\* returns it.
C6_SetIsSynchronous ==
    [][\A p \in Proxies : \A n \in Names :
          /\ (ret'.op = "set" /\ ret'.p = p /\ ret'.member = n /\ _manager[p] # NoManager)
             => /\ ret'.reqs = <<Request("ask", _manager[p], _id[p], "set",
                                         <<n, ret'.args[1]>>, EmptyDict)>>
                /\ ret'.value = None
                /\ ret'.outcome = "ok" => store'[_id[p]][n] = ret'.args[1]
          /\ (/\ ret.op = "set" /\ ret.p = p /\ ret.member = n /\ ret.outcome = "ok"
              /\ ret'.op = "get" /\ ret'.p = p /\ ret'.member = n /\ ret'.outcome = "ok")
             => ret'.value = ret.args[1]]_vars

\* C6 witness: a get() has returned v2, the value the server copy took from
\* a set.
C6_Witness ==
    /\ ret.op = "get" /\ ret.outcome = "ok" /\ ret.value = "v2"
    /\ Len(ret.reqs) = 1 /\ ret.reqs[1].mode = "ask"
    /\ store[_id[ret.p]][ret.member] = "v2"

\* C9: a parameter proxy called with no argument makes the request and has
\* the result of get(); called with one argument it makes the request of
\* set(that value) and returns nothing; called with two or more it fails as
\* an error of the caller and sends nothing.
C9_CallShortcut ==
    [][\A p \in Proxies : \A n \in Names : \A args \in ArgLists :
          (ret'.op = "__call__" /\ ret'.p = p /\ ret'.member = n /\ ret'.args = args)
          => LET same(r) == /\ ret'.outcome = r.outcome /\ ret'.value = r.value
                            /\ ret'.reqs = r.reqs /\ store' = r.store
             IN  /\ Len(args) = 0 => \E ans \in Answers : same(RemoteParameter_get(p, n, ans))
                 /\ Len(args) = 1 =>
                       /\ \E ans \in Answers : same(RemoteParameter_set(p, n, args[1], ans))
                       /\ ret'.value = None
                 /\ Len(args) >= 2 =>
                       /\ ret'.outcome = "TypeError"
                       /\ ret'.reqs = <<>>
                       /\ store' = store]_vars

\* C9 witness: a call with two arguments has raised TypeError on a proxy
\* with a live session and has sent nothing.
C9_Witness ==
    /\ ret.op = "__call__" /\ Len(ret.args) = 2
    /\ ret.outcome = "TypeError" /\ ret.reqs = <<>>
    /\ _manager[ret.p] # NoManager /\ _manager[ret.p] \in alive

\* C7, the session: proxies constructed against the same server name and
\* shared kwargs hold the same session.
SameSession ==
    \A p, q \in Proxies :
        (/\ _manager[p] # NoManager /\ _manager[q] # NoManager
         /\ _server_name[p] = _server_name[q]
         /\ _shared_kwargs[p] = _shared_kwargs[q])
        => _manager[p] = _manager[q]

\* C7, close: close() on p sends delete for the _id of p alone and leaves
\* every other proxy its session, its _id, its members and its server copy.
CloseLeavesOthers ==
    \A p \in Proxies :
        (ret'.op = "close" /\ ret'.p = p)
        => /\ \A i \in DOMAIN ret'.reqs :
                 ret'.reqs[i].mode = "delete" /\ ret'.reqs[i].id = _id[p]
           /\ \A q \in Proxies \ {p} :
                 /\ _manager'[q] = _manager[q] /\ _id'[q] = _id[q]
                 /\ name'[q] = name[q] /\ _methods'[q] = _methods[q]
                 /\ parameters'[q] = parameters[q] /\ functions'[q] = functions[q]
                 /\ _id[q] \in DOMAIN store
                    => _id[q] \in DOMAIN store' /\ store'[_id[q]] = store[_id[q]]

\* C7, afterwards: a get, set or function call of a proxy that has its
\* session is one ask to that session under the proxy's own _id.
AsksUnderOwnId ==
    \A q \in Proxies :
        (ret'.op \in {"get", "set", "call"} /\ ret'.p = q /\ _manager[q] # NoManager)
        => /\ Len(ret'.reqs) = 1
           /\ ret'.reqs[1].mode = "ask"
           /\ ret'.reqs[1].session = _manager[q]
           /\ ret'.reqs[1].id = _id[q]

\* C7: the session is shared, not owned: two proxies of the same server
\* name and shared kwargs hold one session; close() on one of them deletes
\* and detaches that one alone, and the other goes on asking the session
\* under its own _id.
C7_SessionShared ==
    []SameSession /\ [][CloseLeavesOthers /\ AsksUnderOwnId]_vars

\* C7 witness: of two proxies on one session one is closed, and the other
\* has just had a get answered under its own _id.
C7_Witness ==
    \E p, q \in proxies :
        /\ p # q /\ Closed(p) /\ _manager[q] # NoManager
        /\ _server_name[p] = _server_name[q] /\ _shared_kwargs[p] = _shared_kwargs[q]
        /\ ret.op = "get" /\ ret.p = q /\ ret.outcome = "ok"
        /\ ret.reqs[1].id = _id[q] /\ _id[q] # _id[p]

\* C8: attribute delegation answers a name with the method of that name if
\* there is one, else with the parameter, else with the function, and with
\* AttributeError when no mapping holds the name, in every state connect,
\* add_parameter and add_function can produce.
C8_DelegationOrder ==
    \A p \in proxies : \A key \in Names \cup {Absent} :
        __getattr__(p, key) =
            IF key \in DOMAIN _methods[p] THEN _methods[p][key]
            ELSE IF key \in DOMAIN parameters[p] THEN parameters[p][key]
            ELSE IF key \in DOMAIN functions[p] THEN functions[p][key]
            ELSE Raise("AttributeError")

\* C8 witness: a name is a method, a parameter and a function at once and
\* resolves to the method.
C8_Witness ==
    \E p \in proxies : \E key \in Names :
        /\ key \in DOMAIN _methods[p] \cap DOMAIN parameters[p] \cap DOMAIN functions[p]
        /\ __getattr__(p, key).type = "RemoteMethod"

\* What C10 says of the rest of __init__: _shared_kwargs holds the keyword
\* arguments the class lists in shared_kwargs, _kwargs the others; the
\* session is the one of the server name and _shared_kwargs; connect is
\* sent _kwargs, no shared keyword argument among them.
InitPartitions ==
    LET p == ret.p
        kw == ret.kw
    IN  /\ _shared_kwargs[p] = [k \in DOMAIN kw \cap shared_kwargs |-> kw[k]]
        /\ _kwargs[p] = [k \in DOMAIN kw \ shared_kwargs |-> kw[k]]
        /\ ManagerKey(_server_name[p], _shared_kwargs[p]) \in DOMAIN managers
        /\ _manager[p] = managers[ManagerKey(_server_name[p], _shared_kwargs[p])]
        /\ Len(ret.reqs) = 1
        /\ ret.reqs[1].mode = "connect" /\ ret.reqs[1].session = _manager[p]
        /\ ret.reqs[1].kw = _kwargs[p]
        /\ DOMAIN ret.reqs[1].kw \cap shared_kwargs = {}

\* C10 as claimed: constructed without a server name, the proxy asks the
\* class for the default server name with the shared keyword arguments
\* alone; the keyword arguments are then partitioned.
C10_DefaultNameFromShared ==
    ret.op = "__init__"
    => /\ ret.args[1] = ""
          => ret.dsn # {} /\ \A kw \in ret.dsn : DOMAIN kw \subseteq shared_kwargs
       /\ InitPartitions

\* C10 amended: constructed without a server name, the proxy asks the class
\* for the default server name once, with all the keyword arguments of the
\* call, shared or not; constructed with a server name it does not ask; the
\* keyword arguments are then partitioned.
C10_DefaultNameFromAllKwargs ==
    ret.op = "__init__"
    => /\ ret.dsn = IF ret.args[1] = "" THEN {ret.kw} ELSE {}
       /\ InitPartitions

\* C10 witness: a proxy was constructed without a server name, with a shared
\* and a construction-only keyword argument.
C10_Witness ==
    /\ ret.op = "__init__" /\ ret.outcome = "ok" /\ ret.args = <<"">>
    /\ DOMAIN ret.kw = {"address", "label"}
    /\ DOMAIN _shared_kwargs[ret.p] = {"address"} /\ DOMAIN _kwargs[ret.p] = {"label"}
    /\ ret.dsn = {ret.kw}

====
